---- MODULE Spec2Model ----
(***************************************************************************)
(* Multiplayer game rooms of the stock-ai-platform API:                    *)
(*   api/app/routes/multiplayer.py  (request handlers)                     *)
(*   api/app/scheduler.py           (sync_auto auto-advance job)           *)
(*   api/app/models/multiplayer.py  (GameRoom and Player tables)           *)
(*                                                                         *)
(* The database is the state: `rooms` and `players` are the two tables.    *)
(* Dates are day ordinals whose ordinal 0 is a Monday, so that             *)
(* date.weekday() is the ordinal modulo 7; the ISO text stored in the      *)
(* start_date / current_date columns is in bijection with the ordinal.     *)
(* Timestamps are whole seconds of the clock `now`.  A room code is        *)
(* unknown until create_room has issued it, which is how the "not found"   *)
(* branches are entered.                                                   *)
(*                                                                         *)
(* Every handler is an `async def` without an await, so inside one server  *)
(* process a handler (and the scheduler job) runs to completion: Spec      *)
(* takes each handler as one atomic action.  SpecConc adds a join_room     *)
(* request and a scheduler job served by one more server process on the    *)
(* same database: their reads (up to the in-session changes) and their     *)
(* commit are two steps, and nothing in the code locks a row in between.   *)
(* SpecRead does the same for the two queries of get_room_state.           *)
(* SpecTimer and SpecPlayers follow the timer columns and the player       *)
(* records, SpecTick two rooms under a scheduler job whose turns may       *)
(* raise, and SpecLive a room left to the scheduler, with the fairness of  *)
(* the interval job.  The timestamp columns are taken as comparable with   *)
(* datetime.utcnow(), as the elapsed-time subtractions of the code mean.   *)
(***************************************************************************)
EXTENDS Integers, Sequences, FiniteSets, TLC

VARIABLES
    now,        \* datetime.utcnow(), in seconds
    rooms,      \* table multiplayer.game_rooms: room_code -> row
    players,    \* table multiplayer.players: sequence of rows, the index is the id
    last,       \* outcome of the latest request or scheduler job
    txn         \* open transactions of the other server processes

vars == <<now, rooms, players, last, txn>>

\* ------------------------------------------------------------------ bounds
MaxTime == 1
MaxPlayers == 2
MaxTimerTime == 2                       \* the clock of SpecTimer
MaxLiveTime == 4                        \* the clock of SpecLive, in intervals of the job

\* ------------------------------------------------------------------ inputs
None == -1                              \* Python None / SQL NULL
RoomCodes == {"AAAAAA"}                 \* generate_room_code() values
PlayerNames == {"Alice", "Bob"}
GameModes == {"async", "sync", "sync_auto"}
NumDaysChoices == {1, 2}                \* config.num_days, ge=1
InitialCashChoices == {100}             \* config.initial_cash
StartDates == {4}                       \* a Friday
EndDates == {4}                         \* a Friday
DurationChoices == {None, 1}            \* CreateRoomRequest.day_duration_seconds
TimerDurationChoices == {None, 1, -2}   \* the same field (any int), in SpecTimer
TimerChoices == {0, 1}                  \* SetTimerRequest.duration_seconds, ge=0
TimeLimitChoices == {None, 1}           \* AdvanceDayRequest.day_time_limit
Workers == {"w1"}
TickRoomCodes == {"AAAAAA", "BBBBBB"}
TickPlayerNames == {"Alice"}                       \* another server process
HalfSeconds == {0, 1}                   \* utcnow() past the whole second, in halves
PlayCashChoices == {100, -100}          \* config.initial_cash (any int), in SpecPlayers

\* a trade of the client's history, as the JSON column Player.trades keeps it
Trade(ticker, action, day) == [ ticker |-> ticker, action |-> action, day |-> day ]

\* UpdatePlayerStateRequest.trades: "List of all trades"
TradeHistories ==
    { << >>,
      << Trade("AAPL", "BUY", 0) >>,
      << Trade("MSFT", "SELL", 0) >>,
      << Trade("AAPL", "BUY", 0), Trade("AAPL", "SELL", 0) >>,
      << Trade("AAPL", "BUY", 0), Trade("MSFT", "BUY", 0) >>,
      << Trade("AAPL", "BUY", 0), Trade("AAPL", "SELL", 1) >> }

\* UpdatePlayerStateRequest, the fields the claims are about
PlayerStateRequests ==
    [ cash : {50, -50}, trades : TradeHistories, score : {10},
      is_finished : BOOLEAN ]

\* the submission after a day without a trade
NoTradeRequests ==
    { req \in PlayerStateRequests :
        req.cash = 50 /\ req.trades = << >> /\ ~req.is_finished }

\* StockRecommendation.recommendation of (ticker, day), as the offline
\* pipeline left it in the database
Signal(ticker, day) ==
    IF ticker = "AAPL" THEN (IF day = 0 THEN "BUY" ELSE "SELL")
    ELSE (IF day = 0 THEN "HOLD" ELSE "STRONG_BUY")

\* ------------------------------------------------------------------ calendar
\* date.weekday(): Monday is 0, Sunday is 6
Weekday(d) == d % 7

RECURSIVE SkipWeekend(_)
SkipWeekend(d) == IF Weekday(d) >= 5 THEN SkipWeekend(d + 1) ELSE d

\* variant: the weekend is not skipped
next_trading_day_NoSkip(d) == d + 1

\* _next_trading_day
next_trading_day(d) == SkipWeekend(d + 1)

\* ------------------------------------------------------------------ tables
\* GameRoom(...) as create_room builds it, with the column defaults
NewRoom(mode, nd, cash, sd, ed, dur) ==
    [ status |-> "waiting", game_mode |-> mode,
      numDays |-> nd, initialCash |-> cash,
      start_date |-> sd, end_date |-> ed, current_date |-> None,
      current_day |-> 0, day_time_limit |-> None,
      day_duration_seconds |-> dur, day_started_at |-> None,
      started_at |-> None, game_started_at |-> None, game_ended_at |-> None ]

\* Player(...) as join_room builds it, with the column defaults
NewPlayer(code, name, cash) ==
    [ room |-> code, player_name |-> name, current_day |-> 0, cash |-> cash,
      trades |-> << >>, score |-> 0, is_finished |-> FALSE, is_ready |-> FALSE,
      last_sync_day |-> 0, finished_at |-> None ]

PlayerIds == DOMAIN players

\* room.players
RoomPlayers(code) == { i \in PlayerIds : players[i].room = code }

Response(op, status, detail) == [ op |-> op, status |-> status, detail |-> detail ]

Idle == [ pc |-> "idle" ]

EmptyTable == [ c \in {} |-> None ]

Init ==
    /\ now = 0
    /\ rooms = EmptyTable
    /\ players = << >>
    /\ last = Response("init", 0, "")
    /\ txn = [ w \in Workers |-> Idle ]

\* ------------------------------------------------------------------ clock
\* a request's transaction is shorter than a second of the clock
elapse(bound) ==
    /\ now < bound
    /\ \A w \in Workers : txn[w] = Idle
    /\ now' = now + 1
    /\ UNCHANGED <<rooms, players, last, txn>>

time_passes == elapse(MaxTime)

\* ------------------------------------------------------------------ create_room
create_room(code, mode, nd, cash, req_start, req_end, latest, dur) ==
    LET end_dt == IF req_end # None THEN req_end ELSE latest
        start_dt == IF req_start # None THEN req_start ELSE end_dt - (nd - 1)
    IN  /\ code \notin DOMAIN rooms
        /\ IF req_end = None /\ latest = None
           THEN /\ last' = Response("create_room", 404, "no market data")
                /\ UNCHANGED <<rooms, players>>
           ELSE /\ rooms' = [ c \in DOMAIN rooms \cup {code} |->
                                IF c = code
                                THEN NewRoom(mode, nd, cash, start_dt, end_dt, dur)
                                ELSE rooms[c] ]
                /\ last' = Response("create_room", 200, "")
                /\ UNCHANGED players
        /\ UNCHANGED <<now, txn>>

\* ------------------------------------------------------------------ join_room
\* variant: the name is not looked up in the room
JoinRejection_NoNameCheck(code, name) ==
    IF code \notin DOMAIN rooms THEN "not found"
    ELSE IF rooms[code].status = "finished" THEN "finished"
    ELSE ""

\* the three HTTPException branches of join_room, in source order
JoinRejection(code, name) ==
    IF code \notin DOMAIN rooms THEN "not found"
    ELSE IF rooms[code].status = "finished" THEN "finished"
    ELSE IF \E i \in RoomPlayers(code) : players[i].player_name = name THEN "taken"
    ELSE ""

\* variant: the game mode is not tested
AutoStart_AnyMode(code) ==
    /\ rooms[code].status = "waiting"
    /\ RoomPlayers(code) = {}

\* "Auto-start room if it's first player joining (async mode only)"
AutoStart(code) ==
    /\ rooms[code].status = "waiting"
    /\ RoomPlayers(code) = {}
    /\ rooms[code].game_mode = "async"

\* db.add(player); room.status / room.started_at when auto-starting; db.commit()
JoinCommit(code, name, cash, autostart, t) ==
    /\ players' = Append(players, NewPlayer(code, name, cash))
    /\ rooms' = IF autostart
                THEN [ rooms EXCEPT ![code].status = "in_progress",
                                    ![code].started_at = t ]
                ELSE rooms

join_room(code, name) ==
    LET why == JoinRejection(code, name)
    IN  /\ IF why = "not found"
           THEN /\ last' = Response("join_room", 404, why)
                /\ UNCHANGED <<rooms, players>>
           ELSE IF why # ""
           THEN /\ last' = Response("join_room", 400, why)
                /\ UNCHANGED <<rooms, players>>
           ELSE /\ Len(players) < MaxPlayers
                /\ JoinCommit(code, name, rooms[code].initialCash, AutoStart(code), now)
                /\ last' = Response("join_room", 200, name)
        /\ UNCHANGED <<now, txn>>

\* ------------------------------------------------------------------ start_game
\* variant: the status of the room is not tested
StartRejection_NoStatusCheck(code) ==
    IF code \notin DOMAIN rooms THEN "not found"
    ELSE ""

StartRejection(code) ==
    IF code \notin DOMAIN rooms THEN "not found"
    ELSE IF rooms[code].status # "waiting" THEN "already started"
    ELSE ""

StartedRoom(room, t) ==
    [ room EXCEPT !.status = "in_progress",
                  !.game_started_at = t,
                  !.current_date = room.start_date,
                  !.current_day = 0,
                  !.day_started_at =
                      IF room.game_mode \in {"sync", "sync_auto"} THEN t ELSE @ ]

start_game(code) ==
    LET why == StartRejection(code)
    IN  /\ IF why = "not found"
           THEN /\ last' = Response("start_game", 404, why)
                /\ UNCHANGED rooms
           ELSE IF why # ""
           THEN /\ last' = Response("start_game", 400, why)
                /\ UNCHANGED rooms
           ELSE /\ rooms' = [ rooms EXCEPT ![code] = StartedRoom(@, now) ]
                /\ last' = Response("start_game", 200, "")
        /\ UNCHANGED <<now, players, txn>>

\* ------------------------------------------------------------------ advance_day
\* variant: the status of the room is not tested
AdvanceRejection_NoStatusCheck(code) ==
    IF code \notin DOMAIN rooms THEN "not found"
    ELSE IF rooms[code].game_mode = "async" THEN "sync only"
    ELSE ""

\* variant: the advance waits for every player of the room to be ready
AdvanceRejection_WaitsForReady(code) ==
    IF code \notin DOMAIN rooms THEN "not found"
    ELSE IF rooms[code].game_mode = "async" THEN "sync only"
    ELSE IF rooms[code].status # "in_progress" THEN "not in progress"
    ELSE IF \E i \in RoomPlayers(code) : ~players[i].is_ready THEN "not ready"
    ELSE ""

AdvanceRejection(code) ==
    IF code \notin DOMAIN rooms THEN "not found"
    ELSE IF rooms[code].game_mode = "async" THEN "sync only"
    ELSE IF rooms[code].status # "in_progress" THEN "not in progress"
    ELSE ""

\* variant: the subtraction the other way round
DayIndex_Reversed(room, date) == room.start_date - date

\* room.current_day = (current_date_obj - start_dt).days
DayIndex(room, date) == date - room.start_date

\* "if room.current_day >= total_days"
ReachedEnd(room, day) == day >= room.numDays

\* the room columns advance_day writes
AdvancedRoom(room, t, limit) ==
    LET from == IF room.current_date = None THEN room.start_date
                ELSE room.current_date
        date == next_trading_day(from)
        day  == DayIndex(room, date)
        ends == ReachedEnd(room, day)
    IN  [ room EXCEPT !.current_date = date,
                      !.current_day = day,
                      !.day_started_at = t,
                      !.status = IF ends THEN "finished" ELSE @,
                      !.game_ended_at = IF ends THEN t ELSE @,
                      !.day_time_limit =
                          IF limit # None /\ limit # 0 THEN limit ELSE @ ]

\* the two loops over room.players in advance_day
AdvancedPlayer(p, day) ==
    [ p EXCEPT !.is_finished = TRUE, !.is_ready = FALSE, !.last_sync_day = day ]

advance_day(code, limit) ==
    LET why == AdvanceRejection(code)
    IN  /\ IF why = "not found"
           THEN /\ last' = Response("advance_day", 404, why)
                /\ UNCHANGED <<rooms, players>>
           ELSE IF why # ""
           THEN /\ last' = Response("advance_day", 400, why)
                /\ UNCHANGED <<rooms, players>>
           ELSE /\ rooms' = [ rooms EXCEPT ![code] = AdvancedRoom(@, now, limit) ]
                /\ players' = [ i \in PlayerIds |->
                                  IF players[i].room = code
                                  THEN AdvancedPlayer(players[i], rooms'[code].current_day)
                                  ELSE players[i] ]
                /\ last' = Response("advance_day", 200, "")
        /\ UNCHANGED <<now, txn>>

\* ------------------------------------------------------------------ end_game
\* variant: the status of the room is not tested
EndRejection_NoStatusCheck(code) ==
    IF code \notin DOMAIN rooms THEN "not found"
    ELSE ""

EndRejection(code) ==
    IF code \notin DOMAIN rooms THEN "not found"
    ELSE IF rooms[code].status = "finished" THEN "already finished"
    ELSE ""

end_game(code) ==
    LET why == EndRejection(code)
    IN  /\ IF why = "not found"
           THEN /\ last' = Response("end_game", 404, why)
                /\ UNCHANGED <<rooms, players>>
           ELSE IF why # ""
           THEN /\ last' = Response("end_game", 400, why)
                /\ UNCHANGED <<rooms, players>>
           ELSE /\ rooms' = [ rooms EXCEPT ![code].status = "finished",
                                           ![code].game_ended_at = now ]
                /\ players' = [ i \in PlayerIds |->
                                  IF players[i].room = code
                                  THEN [ players[i] EXCEPT !.is_finished = TRUE ]
                                  ELSE players[i] ]
                /\ last' = Response("end_game", 200, "")
        /\ UNCHANGED <<now, txn>>

\* ------------------------------------------------------------------ set_timer
TimerRejection(code) ==
    IF code \notin DOMAIN rooms THEN "not found"
    ELSE IF rooms[code].game_mode = "async" THEN "sync only"
    ELSE ""

TimedRoom(room, t, duration) ==
    [ room EXCEPT !.day_time_limit = duration,
                  !.day_duration_seconds =
                      IF room.game_mode = "sync_auto" THEN duration ELSE @,
                  !.day_started_at = IF duration > 0 THEN t ELSE @ ]

set_timer(code, duration) ==
    LET why == TimerRejection(code)
    IN  /\ IF why = "not found"
           THEN /\ last' = Response("set_timer", 404, why)
                /\ UNCHANGED rooms
           ELSE IF why # ""
           THEN /\ last' = Response("set_timer", 400, why)
                /\ UNCHANGED rooms
           ELSE /\ rooms' = [ rooms EXCEPT ![code] = TimedRoom(@, now, duration) ]
                /\ last' = Response("set_timer", 200, "")
        /\ UNCHANGED <<now, players, txn>>

\* ------------------------------------------------------------------ mark_player_ready
ReadyRejection(id) ==
    IF id \notin PlayerIds THEN "not found"
    ELSE IF rooms[players[id].room].game_mode = "async" THEN "sync only"
    ELSE ""

mark_player_ready(id) ==
    LET why == ReadyRejection(id)
    IN  /\ IF why = "not found"
           THEN /\ last' = Response("mark_player_ready", 404, why)
                /\ UNCHANGED players
           ELSE IF why # ""
           THEN /\ last' = Response("mark_player_ready", 400, why)
                /\ UNCHANGED players
           ELSE /\ players' = [ players EXCEPT ![id].is_ready = TRUE ]
                /\ last' = Response("mark_player_ready", 200, "")
        /\ UNCHANGED <<now, rooms, txn>>

\* ------------------------------------------------------------------ get_room_state
\* "default 30s for sync_auto"
DefaultTimerSeconds == 30

\* Python truth of an Optional[int] column: neither None nor 0
Truthy(x) == x # None /\ x # 0

\* timer_limit = room.day_time_limit or (room.game_mode == "sync_auto" and
\* (room.day_duration_seconds or 30)); a falsy result is None here
timer_limit(room) ==
    IF Truthy(room.day_time_limit) THEN room.day_time_limit
    ELSE IF room.game_mode # "sync_auto" THEN None
    ELSE IF Truthy(room.day_duration_seconds) THEN room.day_duration_seconds
    ELSE DefaultTimerSeconds

\* int(x) for x = twice / 2: Python truncates toward zero
IntOfHalves(twice) ==
    IF twice >= 0 THEN twice \div 2 ELSE -((-twice) \div 2)

\* the if / elif that computes time_remaining.  utcnow() is read `half`
\* half-seconds past the whole second t, so that
\* elapsed = (t - day_started_at) + half / 2 and
\* time_remaining = max(0, int(timer_limit - elapsed))
time_remaining(room, t, half) ==
    LET limit == timer_limit(room)
        left  == IntOfHalves(2 * limit - (2 * (t - room.day_started_at) + half))
    IN  IF Truthy(limit) /\ room.day_started_at # None
        THEN IF left > 0 THEN left ELSE 0
        ELSE IF Truthy(limit) THEN limit
        ELSE None

RoomStateResponse(code, room, t, half) ==
    [ op |-> "get_room_state", status |-> 200, detail |-> "",
      room_code |-> code,
      day_time_limit |-> room.day_time_limit,
      time_remaining |-> time_remaining(room, t, half),
      ready_count |-> Cardinality({ i \in RoomPlayers(code) : players[i].is_ready }),
      total_players |-> Cardinality(RoomPlayers(code)) ]

get_room_state(code, half) ==
    /\ IF code \notin DOMAIN rooms
       THEN last' = Response("get_room_state", 404, "not found")
       ELSE last' = RoomStateResponse(code, rooms[code], now, half)
    /\ UNCHANGED <<now, rooms, players, txn>>

\* ------------------------------------------------------------------ update_player_state
\* the assignments to the loaded player, in the session only
SubmittedPlayer(p, req, t) ==
    [ p EXCEPT !.cash = req.cash, !.trades = req.trades, !.score = req.score,
               !.is_finished = req.is_finished,
               !.finished_at = IF req.is_finished THEN t ELSE @ ]

\* variant: the handler reaches db.commit() and the assignments are stored
update_player_state_Commits(id, req) ==
    /\ IF id \notin PlayerIds
       THEN /\ last' = Response("update_player_state", 404, "not found")
            /\ UNCHANGED players
       ELSE /\ players' = [ players EXCEPT ![id] = SubmittedPlayer(@, req, now) ]
            /\ last' = Response("update_player_state", 200, "")
    /\ UNCHANGED <<now, rooms, txn>>

\* The handler assigns the submitted figures to the loaded player, with no
\* test of any of them, and then reads request.ai_portfolio_value.
\* UpdatePlayerStateRequest declares no such field, so that read raises
\* AttributeError before db.commit(): the request ends in a server error
\* and the session, SubmittedPlayer included, is closed uncommitted.
update_player_state(id, req) ==
    /\ IF id \notin PlayerIds
       THEN last' = Response("update_player_state", 404, "not found")
       ELSE last' = Response("update_player_state", 500, "AttributeError")
    /\ UNCHANGED <<now, rooms, players, txn>>

\* ------------------------------------------------------------------ get_leaderboard
\* ORDER BY score DESC: the rows come with non-increasing score, and rows of
\* equal score in whatever order the database's plan yields
OrderedByScore(code) ==
    { o \in [ 1..Cardinality(RoomPlayers(code)) -> RoomPlayers(code) ] :
        /\ \A j, k \in DOMAIN o : j # k => o[j] # o[k]
        /\ \A j, k \in DOMAIN o :
               j < k => players[o[j]].score >= players[o[k]].score }

\* "for rank, player in enumerate(players, start=1)"
LeaderboardEntries(order) ==
    [ k \in DOMAIN order |->
        [ rank |-> k, player_id |-> order[k],
          player_name |-> players[order[k]].player_name,
          score |-> players[order[k]].score,
          is_finished |-> players[order[k]].is_finished ] ]

get_leaderboard(code) ==
    /\ IF code \notin DOMAIN rooms
       THEN last' = Response("get_leaderboard", 404, "not found")
       ELSE \E order \in OrderedByScore(code) :
                last' = [ op |-> "get_leaderboard", status |-> 200, detail |-> "",
                          room_code |-> code,
                          board |-> LeaderboardEntries(order) ]
    /\ UNCHANGED <<now, rooms, players, txn>>

\* ------------------------------------------------------------------ scheduler
\* the filter of the query in check_and_advance_rooms
SchedulerSelects(room) ==
    /\ room.status = "in_progress"
    /\ room.game_mode = "sync_auto"
    /\ room.day_duration_seconds # None
    /\ room.day_started_at # None

\* "if elapsed_seconds >= room.day_duration_seconds"
Due(room, t) == t - room.day_started_at >= room.day_duration_seconds

\* "if room.current_day > room.config["numDays"]"
SchedulerEnds(room) == room.current_day > room.numDays

\* variant: the finishing branch leaves game_ended_at as it was
TickRoom_NoEndStamp(room, t) ==
    IF ~Due(room, t) \/ room.current_date = None THEN room
    ELSE IF SchedulerEnds(room)
    THEN [ room EXCEPT !.status = "finished",
                       !.day_started_at = None ]
    ELSE [ room EXCEPT !.current_date = next_trading_day(room.current_date),
                       !.current_day = @ + 1,
                       !.day_started_at = t ]

\* the body of the loop for one selected room, on its loaded columns;
\* fromisoformat(None) raises, and the except branch rolls the room back
TickRoom(room, t) ==
    IF ~Due(room, t) \/ room.current_date = None THEN room
    ELSE IF SchedulerEnds(room)
    THEN [ room EXCEPT !.status = "finished",
                       !.game_ended_at = t,
                       !.day_started_at = None ]
    ELSE [ room EXCEPT !.current_date = next_trading_day(room.current_date),
                       !.current_day = @ + 1,
                       !.day_started_at = t ]

\* the scheduler resets is_ready only in the branch that advances
TickResetsReady(room, t) ==
    /\ Due(room, t)
    /\ room.current_date # None
    /\ ~SchedulerEnds(room)

\* db.commit() writes the columns the session changed
Flush(row, loaded, changed) ==
    [ f \in DOMAIN row |-> IF changed[f] # loaded[f] THEN changed[f] ELSE row[f] ]

check_and_advance_rooms ==
    LET selected == { c \in DOMAIN rooms : SchedulerSelects(rooms[c]) }
        reset == { c \in selected : TickResetsReady(rooms[c], now) }
    IN  /\ rooms' = [ c \in DOMAIN rooms |->
                        IF c \in selected THEN TickRoom(rooms[c], now) ELSE rooms[c] ]
        /\ players' = [ i \in PlayerIds |->
                          IF players[i].room \in reset
                          THEN [ players[i] EXCEPT !.is_ready = FALSE ]
                          ELSE players[i] ]
        /\ last' = Response("check_and_advance_rooms", 0,
                            IF rooms' = rooms THEN "idle" ELSE "advanced")
        /\ UNCHANGED <<now, txn>>

\* variant: one try around the whole loop, so that a room that raises ends
\* the job before any other room is advanced
check_and_advance_rooms_raising_OneTry(failed) ==
    LET selected == { c \in DOMAIN rooms : SchedulerSelects(rooms[c]) }
        done == IF failed = {} THEN selected ELSE {}
        reset == { c \in done : TickResetsReady(rooms[c], now) }
    IN  /\ failed \subseteq { c \in selected : Due(rooms[c], now) }
        /\ rooms' = [ c \in DOMAIN rooms |->
                        IF c \in done THEN TickRoom(rooms[c], now) ELSE rooms[c] ]
        /\ players' = [ i \in PlayerIds |->
                          IF players[i].room \in reset
                          THEN [ players[i] EXCEPT !.is_ready = FALSE ]
                          ELSE players[i] ]
        /\ last' = Response("check_and_advance_rooms", 0,
                            IF failed # {} THEN "error"
                            ELSE IF rooms' = rooms THEN "idle" ELSE "advanced")
        /\ UNCHANGED <<now, txn>>

\* The job when the inner try of the due rooms in `failed` raises (a
\* database error at db.commit() or while room.players is loaded): the
\* except branch logs, rolls the session back, which discards the changes
\* made to that room since the last commit, and the loop goes on to the
\* next room.  Every other room has its own db.commit().
check_and_advance_rooms_raising(failed) ==
    LET selected == { c \in DOMAIN rooms : SchedulerSelects(rooms[c]) }
        done == selected \ failed
        reset == { c \in done : TickResetsReady(rooms[c], now) }
    IN  /\ failed \subseteq { c \in selected : Due(rooms[c], now) }
        /\ rooms' = [ c \in DOMAIN rooms |->
                        IF c \in done THEN TickRoom(rooms[c], now) ELSE rooms[c] ]
        /\ players' = [ i \in PlayerIds |->
                          IF players[i].room \in reset
                          THEN [ players[i] EXCEPT !.is_ready = FALSE ]
                          ELSE players[i] ]
        /\ last' = Response("check_and_advance_rooms", 0,
                            IF failed # {} THEN "error"
                            ELSE IF rooms' = rooms THEN "idle" ELSE "advanced")
        /\ UNCHANGED <<now, txn>>

\* the job is scheduled at a fixed interval: the clock moves on by one
\* interval once the job has had its run in the current one, that is, when
\* no room it selects is left due
interval_passes ==
    /\ \A c \in DOMAIN rooms : SchedulerSelects(rooms[c]) => ~Due(rooms[c], now)
    /\ elapse(MaxLiveTime)

\* ------------------------------------------------------------------ other processes
\* join_room served by another process: the reads and the in-session changes
\* (the room lookup up to the auto-start test), db.commit() still to come
join_begin(w, code, name) ==
    /\ txn[w] = Idle
    /\ JoinRejection(code, name) = ""
    /\ txn' = [ txn EXCEPT ![w] =
                  [ pc |-> "join", room |-> code, name |-> name,
                    cash |-> rooms[code].initialCash,
                    autostart |-> AutoStart(code), t |-> now ] ]
    /\ UNCHANGED <<now, rooms, players, last>>

\* its db.commit(): the INSERT of the player and, when auto-starting, the
\* UPDATE of the room's status and started_at
join_commit(w) ==
    /\ txn[w].pc = "join"
    /\ Len(players) < MaxPlayers
    /\ JoinCommit(txn[w].room, txn[w].name, txn[w].cash, txn[w].autostart, txn[w].t)
    /\ last' = Response("join_room", 200, txn[w].name)
    /\ txn' = [ txn EXCEPT ![w] = Idle ]
    /\ UNCHANGED now

\* check_and_advance_rooms in another process: the query and now = utcnow()
tick_begin(w) ==
    LET selected == { c \in DOMAIN rooms : SchedulerSelects(rooms[c]) }
    IN  /\ txn[w] = Idle
        /\ selected # {}
        /\ txn' = [ txn EXCEPT ![w] =
                      [ pc |-> "tick", t |-> now, todo |-> selected,
                        loaded |-> [ c \in selected |-> rooms[c] ],
                        expired |-> FALSE ] ]
        /\ UNCHANGED <<now, rooms, players, last>>

\* the columns the job holds for room c: as queried, or as reloaded once a
\* commit or rollback of the same session has expired them
TickLoaded(w, c) == IF txn[w].expired THEN rooms[c] ELSE txn[w].loaded[c]

\* one turn of its loop: the in-session changes of one room and db.commit()
tick_step(w, c) ==
    LET loaded == TickLoaded(w, c)
        t == txn[w].t
        left == txn[w].todo \ {c}
    IN  /\ txn[w].pc = "tick"
        /\ c \in txn[w].todo
        /\ IF loaded.day_started_at = None \/ loaded.day_duration_seconds = None
           THEN \* the subtraction raises outside the inner try: the job ends
                /\ txn' = [ txn EXCEPT ![w] = Idle ]
                /\ last' = Response("check_and_advance_rooms", 0, "error")
                /\ UNCHANGED <<rooms, players>>
           ELSE /\ rooms' = [ rooms EXCEPT ![c] = Flush(@, loaded, TickRoom(loaded, t)) ]
                /\ players' = [ i \in PlayerIds |->
                                  IF players[i].room = c /\ TickResetsReady(loaded, t)
                                  THEN [ players[i] EXCEPT !.is_ready = FALSE ]
                                  ELSE players[i] ]
                /\ last' = Response("check_and_advance_rooms", 0,
                                    IF rooms' = rooms THEN "idle" ELSE "advanced")
                /\ txn' = [ txn EXCEPT ![w] =
                              IF left = {} THEN Idle
                              ELSE [ @ EXCEPT !.todo = left,
                                              !.expired = @ \/ Due(loaded, t) ] ]
        /\ UNCHANGED now

\* get_room_state served by another process: its first query, the room row.
\* `before` keeps the player rows as they are at that query, which the
\* handler does not read yet.
state_begin(w, code) ==
    /\ txn[w] = Idle
    /\ code \in DOMAIN rooms
    /\ txn' = [ txn EXCEPT ![w] =
                  [ pc |-> "state", room |-> code, row |-> rooms[code],
                    before |-> players ] ]
    /\ UNCHANGED <<now, rooms, players, last>>

\* its second query, the lazy load of room.players on first access, which
\* under READ COMMITTED sees what has been committed since, and the response
state_finish(w, half) ==
    /\ txn[w].pc = "state"
    /\ last' = RoomStateResponse(txn[w].room, txn[w].row, now, half)
    /\ txn' = [ txn EXCEPT ![w] = Idle ]
    /\ UNCHANGED <<now, rooms, players>>

Next ==
    \/ time_passes
    \/ \E code \in RoomCodes, mode \in GameModes, nd \in NumDaysChoices,
          cash \in InitialCashChoices, rs \in StartDates \cup {None},
          re \in EndDates \cup {None}, latest \in EndDates \cup {None},
          dur \in DurationChoices :
          create_room(code, mode, nd, cash, rs, re, latest, dur)
    \/ \E code \in RoomCodes, name \in PlayerNames :
          join_room(code, name)
    \/ \E code \in RoomCodes : start_game(code)
    \/ \E code \in RoomCodes, limit \in TimeLimitChoices :
          advance_day(code, limit)
    \/ \E code \in RoomCodes : end_game(code)
    \/ \E code \in RoomCodes, d \in TimerChoices :
          set_timer(code, d)
    \/ \E id \in 1..MaxPlayers : mark_player_ready(id)
    \/ \E id \in 1..MaxPlayers, req \in NoTradeRequests :
          update_player_state(id, req)
    \/ check_and_advance_rooms

Spec == Init /\ [][Next]_vars

\* The room handlers and the scheduler job of this process, and the same
\* join_room and scheduler job running in one more server process on the
\* same database (readiness and player submissions are left to Spec).
NextConc ==
    \/ time_passes
    \/ \E code \in RoomCodes, mode \in GameModes, nd \in NumDaysChoices,
          cash \in InitialCashChoices, rs \in StartDates \cup {None},
          re \in EndDates \cup {None}, latest \in EndDates \cup {None},
          dur \in DurationChoices :
          create_room(code, mode, nd, cash, rs, re, latest, dur)
    \/ \E code \in RoomCodes, name \in PlayerNames :
          join_room(code, name)
    \/ \E code \in RoomCodes : start_game(code)
    \/ \E code \in RoomCodes, limit \in TimeLimitChoices :
          advance_day(code, limit)
    \/ \E code \in RoomCodes : end_game(code)
    \/ \E code \in RoomCodes, d \in TimerChoices :
          set_timer(code, d)
    \/ check_and_advance_rooms
    \/ \E w \in Workers, code \in RoomCodes, name \in PlayerNames :
          join_begin(w, code, name)
    \/ \E w \in Workers : join_commit(w)
    \/ \E w \in Workers : tick_begin(w)
    \/ \E w \in Workers, code \in RoomCodes : tick_step(w, code)

SpecConc == Init /\ [][NextConc]_vars

\* The timer of a room over a longer stretch of the clock: the handlers and
\* the scheduler job that write or read the room's timing columns, in a
\* room nobody has joined.
NextTimer ==
    \/ elapse(MaxTimerTime)
    \/ \E code \in RoomCodes, mode \in GameModes, nd \in NumDaysChoices,
          cash \in InitialCashChoices, rs \in StartDates \cup {None},
          re \in EndDates \cup {None}, latest \in EndDates \cup {None},
          dur \in TimerDurationChoices :
          create_room(code, mode, nd, cash, rs, re, latest, dur)
    \/ \E code \in RoomCodes : start_game(code)
    \/ \E code \in RoomCodes, limit \in TimeLimitChoices :
          advance_day(code, limit)
    \/ \E code \in RoomCodes : end_game(code)
    \/ \E code \in RoomCodes, d \in TimerChoices :
          set_timer(code, d)
    \/ \E code \in RoomCodes, half \in HalfSeconds :
          get_room_state(code, half)
    \/ check_and_advance_rooms

SpecTimer == Init /\ [][NextTimer]_vars

\* The player records and the leaderboard read from them: rooms are created
\* and joined, players submit their state, the leaderboard is queried.
NextPlayers ==
    \/ \E code \in RoomCodes, mode \in GameModes, nd \in NumDaysChoices,
          cash \in PlayCashChoices, rs \in StartDates \cup {None},
          re \in EndDates \cup {None}, latest \in EndDates \cup {None},
          dur \in DurationChoices :
          create_room(code, mode, nd, cash, rs, re, latest, dur)
    \/ \E code \in RoomCodes, name \in PlayerNames :
          join_room(code, name)
    \/ \E code \in RoomCodes : end_game(code)
    \/ \E id \in 1..MaxPlayers, req \in PlayerStateRequests :
          update_player_state(id, req)
    \/ \E code \in RoomCodes : get_leaderboard(code)

SpecPlayers == Init /\ [][NextPlayers]_vars

\* The handlers that change a room and its players, and get_room_state
\* polled through one more server process, its two queries apart.
NextRead ==
    \/ \E code \in RoomCodes, mode \in GameModes, nd \in NumDaysChoices,
          cash \in InitialCashChoices, rs \in StartDates \cup {None},
          re \in EndDates \cup {None}, latest \in EndDates \cup {None},
          dur \in DurationChoices :
          create_room(code, mode, nd, cash, rs, re, latest, dur)
    \/ \E code \in RoomCodes, name \in PlayerNames :
          join_room(code, name)
    \/ \E code \in RoomCodes : start_game(code)
    \/ \E code \in RoomCodes, limit \in TimeLimitChoices :
          advance_day(code, limit)
    \/ \E id \in 1..MaxPlayers : mark_player_ready(id)
    \/ \E w \in Workers, code \in RoomCodes : state_begin(w, code)
    \/ \E w \in Workers, half \in HalfSeconds : state_finish(w, half)

SpecRead == Init /\ [][NextRead]_vars

\* Two sync_auto rooms under one scheduler job whose turns may raise: the
\* rooms are created, joined and started, players mark themselves ready,
\* and the job runs with any set of its due rooms failing.
NextTick ==
    \/ time_passes
    \/ \E code \in TickRoomCodes, nd \in NumDaysChoices,
          cash \in InitialCashChoices, re \in EndDates,
          dur \in DurationChoices :
          create_room(code, "sync_auto", nd, cash, None, re, None, dur)
    \/ \E code \in TickRoomCodes, name \in TickPlayerNames :
          join_room(code, name)
    \/ \E code \in TickRoomCodes : start_game(code)
    \/ \E id \in 1..MaxPlayers : mark_player_ready(id)
    \/ \E failed \in SUBSET TickRoomCodes :
          check_and_advance_rooms_raising(failed)

SpecTick == Init /\ [][NextTick]_vars

\* A room left to the scheduler: it is created and started, and from then
\* on the job runs once in every interval, without fail.
NextLive ==
    \/ interval_passes
    \/ \E code \in RoomCodes, mode \in GameModes, nd \in NumDaysChoices,
          cash \in InitialCashChoices, rs \in StartDates \cup {None},
          re \in EndDates \cup {None}, latest \in EndDates \cup {None},
          dur \in DurationChoices :
          create_room(code, mode, nd, cash, rs, re, latest, dur)
    \/ \E code \in RoomCodes : start_game(code)
    \/ check_and_advance_rooms

SpecLive ==
    /\ Init
    /\ [][NextLive]_vars
    /\ WF_vars(check_and_advance_rooms)
    /\ WF_vars(interval_passes)

\* ================================================================== claims
PlayersOf(ps, c) == { i \in DOMAIN ps : ps[i].room = c }

\* this step leaves the row of room c and the rows of its players as they were
RoomFrozen(c) ==
    /\ rooms'[c] = rooms[c]
    /\ PlayersOf(players', c) = PlayersOf(players, c)
    /\ \A i \in PlayersOf(players, c) : players'[i] = players[i]

\* this step moves the date of a started room: a successful advance
DateMoves(c) ==
    /\ rooms[c].status = "in_progress"
    /\ rooms'[c].current_date # rooms[c].current_date

\* C1: every change of a room's status is waiting -> in_progress or
\* in_progress -> finished; never waiting -> finished, never out of finished.
C1_StatusTransitions ==
    [][ \A c \in DOMAIN rooms :
          rooms'[c].status # rooms[c].status =>
              <<rooms[c].status, rooms'[c].status>> \in
                  { <<"waiting", "in_progress">>, <<"in_progress", "finished">> } ]_vars

\* C2: once a room is finished, no operation changes any field of the room
\* or of its players.
C2_FinishedReadOnly ==
    [][ \A c \in DOMAIN rooms :
          rooms[c].status = "finished" => RoomFrozen(c) ]_vars

\* C3: advance_day on a finished room, and a scheduler job over a finished
\* room, change no field of the room or of its players.
C3_FinishedAdvanceNoOp ==
    [][ \A c \in DOMAIN rooms :
          ( /\ rooms[c].status = "finished"
            /\ last'.op \in {"advance_day", "check_and_advance_rooms"}
            /\ \/ \E limit \in TimeLimitChoices : advance_day(c, limit)
               \/ check_and_advance_rooms )
          => RoomFrozen(c) ]_vars

C3_Witness ==
    \E c \in DOMAIN rooms :
        /\ rooms[c].status = "finished"
        /\ last = Response("advance_day", 400, "not in progress")

\* C4: room.current_day never decreases, whatever mix of manual and
\* scheduled advances the room goes through.
C4_DayNeverDecreases ==
    [][ \A c \in DOMAIN rooms :
          rooms'[c].current_day >= rooms[c].current_day ]_vars

\* a Thursday room advanced by hand to Friday (the player was synced to day
\* 1) and then by the scheduler over the weekend
C4_Witness ==
    \E c \in DOMAIN rooms :
        /\ last.op = "check_and_advance_rooms"
        /\ rooms[c].current_date = 7
        /\ rooms[c].current_day = 2
        /\ \E i \in PlayersOf(players, c) : players[i].last_sync_day = 1

\* C5: every successful advance moves current_day forward by exactly 1.
C5_DayStepsByOne ==
    [][ \A c \in DOMAIN rooms :
          DateMoves(c) => rooms'[c].current_day = rooms[c].current_day + 1 ]_vars

\* n is a weekday and the smallest weekday after o
SmallestWeekdayAfter(n, o) ==
    /\ n > o
    /\ Weekday(n) \in 0..4
    /\ \A k \in (o + 1)..(n - 1) : Weekday(k) \in {5, 6}

\* C6: after every advance that moves the date, current_date is a weekday
\* and the smallest weekday strictly after the date before the advance.
C6_NextTradingDay ==
    [][ \A c \in DOMAIN rooms :
          DateMoves(c) =>
              SmallestWeekdayAfter(rooms'[c].current_date, rooms[c].current_date) ]_vars

\* the scheduler has just taken a room from a Friday to the Monday after
C6_Witness ==
    \E c \in DOMAIN rooms :
        /\ last = Response("check_and_advance_rooms", 0, "advanced")
        /\ rooms[c].status = "in_progress"
        /\ rooms[c].current_date = 7

\* C7: a room is finished by the advance whose resulting current_day first
\* reaches num_days, so no room is in_progress with current_day >= num_days.
C7_FinishedAtNumDays ==
    \A c \in DOMAIN rooms :
        rooms[c].status = "in_progress" => rooms[c].current_day < rooms[c].numDays

\* what a scheduler job that observed the columns `seen` at its time t must
\* have done to the row: nothing before the threshold, one step after it
OneStep(seen, t, before, after) ==
    IF t - seen.day_started_at < seen.day_duration_seconds
    THEN after = before
    ELSE /\ SmallestWeekdayAfter(after.current_date, seen.current_date)
         /\ after.current_day = seen.current_day + 1

\* C8: a scheduler job observing elapsed < D changes nothing; one observing
\* elapsed >= D advances the room exactly one step (one trading day, one
\* day index), also when the jobs of two processes interleave on the room.
C8_TickAdvancesOnce ==
    [][ /\ check_and_advance_rooms =>
              \A c \in DOMAIN rooms :
                  SchedulerSelects(rooms[c]) =>
                      OneStep(rooms[c], now, rooms[c], rooms'[c])
        /\ \A w \in Workers, c \in DOMAIN rooms :
              (tick_step(w, c) /\ last'.detail # "error") =>
                  OneStep(TickLoaded(w, c), txn[w].t, rooms[c], rooms'[c]) ]_vars

NameTaken(c, n) ==
    \E i \in PlayersOf(players, c) : players[i].player_name = n

\* C9: in a room that is not finished, join with a free name succeeds and
\* adds that player; join with a name the room already has fails with the
\* duplicate-player error, adds no player and changes nothing.
C9_DuplicateJoinRejected ==
    [][ \A c \in DOMAIN rooms, n \in PlayerNames :
          (join_room(c, n) /\ rooms[c].status # "finished") =>
              IF NameTaken(c, n)
              THEN /\ last' = Response("join_room", 400, "taken")
                   /\ UNCHANGED <<rooms, players>>
              ELSE /\ last'.status = 200
                   /\ Len(players') = Len(players) + 1
                   /\ players'[Len(players')].room = c
                   /\ players'[Len(players')].player_name = n
                   /\ \A i \in PlayerIds : players'[i] = players[i] ]_vars

C9_Witness ==
    \E c \in DOMAIN rooms, n \in PlayerNames :
        /\ last = Response("join_room", 400, "taken")
        /\ rooms[c].status # "finished"
        /\ Cardinality({ i \in PlayersOf(players, c) : players[i].player_name = n }) = 1

\* C10: no room ever holds two players with the same player_name, also when
\* two join requests for the same room and name interleave.
C10_UniqueNames ==
    \A i, j \in PlayerIds :
        (i # j /\ players[i].room = players[j].room) =>
            players[i].player_name # players[j].player_name

\* C11: a successful join moves a waiting async room to in_progress, and a
\* join never changes the status of a sync or sync_auto room (nor of a room
\* that is not waiting).
C11_JoinStartsOnlyAsync ==
    [][ \A c \in DOMAIN rooms, n \in PlayerNames :
          (last'.op = "join_room" /\ join_room(c, n) /\ last'.status = 200) =>
              IF rooms[c].game_mode = "async" /\ rooms[c].status = "waiting"
              THEN rooms'[c].status = "in_progress"
              ELSE rooms'[c].status = rooms[c].status ]_vars

\* a join that has just been accepted, in an async room its first join started
C11_Witness ==
    \E c \in DOMAIN rooms :
        /\ last.op = "join_room" /\ last.status = 200
        /\ rooms[c].game_mode = "async"
        /\ rooms[c].status = "in_progress"
        /\ rooms[c].started_at # None
        /\ rooms[c].game_started_at = None

\* C12: start_game on a waiting room succeeds and sets status in_progress,
\* current_date = start_date, current_day = 0 and, in sync and sync_auto,
\* day_started_at = now; on any other room it fails and changes nothing.
C12_StartGame ==
    [][ \A c \in DOMAIN rooms :
          (last'.op = "start_game" /\ start_game(c)) =>
              IF rooms[c].status = "waiting"
              THEN /\ last'.status = 200
                   /\ rooms'[c].status = "in_progress"
                   /\ rooms'[c].current_date = rooms[c].start_date
                   /\ rooms'[c].current_day = 0
                   /\ rooms[c].game_mode \in {"sync", "sync_auto"} =>
                          rooms'[c].day_started_at = now
              ELSE /\ last'.status = 400
                   /\ UNCHANGED <<rooms, players>> ]_vars

\* a sync_auto room started at second 1
C12_Witness ==
    \E c \in DOMAIN rooms :
        /\ last = Response("start_game", 200, "")
        /\ rooms[c].game_mode = "sync_auto"
        /\ rooms[c].status = "in_progress"
        /\ rooms[c].day_started_at = 1
        /\ rooms[c].current_date = rooms[c].start_date

\* the request is answered with an error and no row has changed
Refused ==
    /\ last'.status \in {400, 404}
    /\ UNCHANGED <<rooms, players>>

\* C13: every rejected request leaves all rooms and players unchanged: join
\* with an unknown code, a taken name or a finished room; start_game on a
\* room that is not waiting; advance_day on an async room or a room not in
\* progress; end_game on a finished room; set_timer or mark_ready in an
\* async room.  (The step's handler is looked up by last'.op first, so that
\* each handler is evaluated on its own steps only.)
C13_RejectedChangesNothing ==
    [][ /\ \A c \in RoomCodes, n \in PlayerNames :
              ( /\ last'.op = "join_room"
                /\ \/ c \notin DOMAIN rooms
                   \/ rooms[c].status = "finished"
                   \/ NameTaken(c, n)
                /\ join_room(c, n) ) => Refused
        /\ \A c \in DOMAIN rooms :
              ( /\ last'.op = "start_game"
                /\ rooms[c].status # "waiting"
                /\ start_game(c) ) => Refused
        /\ \A c \in DOMAIN rooms, limit \in TimeLimitChoices :
              ( /\ last'.op = "advance_day"
                /\ \/ rooms[c].game_mode = "async"
                   \/ rooms[c].status # "in_progress"
                /\ advance_day(c, limit) ) => Refused
        /\ \A c \in DOMAIN rooms :
              ( /\ last'.op = "end_game"
                /\ rooms[c].status = "finished"
                /\ end_game(c) ) => Refused
        /\ \A c \in DOMAIN rooms, d \in TimerChoices :
              ( /\ last'.op = "set_timer"
                /\ rooms[c].game_mode = "async"
                /\ set_timer(c, d) ) => Refused
        /\ \A i \in PlayerIds :
              ( /\ last'.op = "mark_player_ready"
                /\ rooms[players[i].room].game_mode = "async"
                /\ mark_player_ready(i) ) => Refused ]_vars

\* end_game has just been refused on a finished room that has a player
C13_Witness ==
    \E c \in DOMAIN rooms :
        /\ last = Response("end_game", 400, "already finished")
        /\ rooms[c].status = "finished"
        /\ PlayersOf(players, c) # {}

\* C14: after every successful advance of a room, by advance_day or by the
\* scheduler, the finishing step included, no player of the room is ready.
C14_AdvanceResetsReady ==
    [][ \A c \in DOMAIN rooms :
          ( /\ rooms[c].status = "in_progress"
            /\ \/ \E limit \in TimeLimitChoices : advance_day(c, limit)
               \/ check_and_advance_rooms
            /\ \/ DateMoves(c)
               \/ rooms'[c].status = "finished" )
          => \A i \in PlayersOf(players', c) : ~players'[i].is_ready ]_vars

\* the limit get_room_state counts down from: day_time_limit when one is
\* set, else in sync_auto day_duration_seconds or, with neither set, 30
\* seconds; a limit of 0 is "no timer", that is, not set
ConfiguredLimit(room) ==
    IF room.day_time_limit \notin {None, 0} THEN room.day_time_limit
    ELSE IF room.game_mode = "sync_auto"
         THEN IF room.day_duration_seconds \notin {None, 0}
              THEN room.day_duration_seconds ELSE 30
         ELSE None

\* twice the exact max(0, limit - elapsed) of a started day, for a request
\* served `half` half-seconds past the second `now`
TwiceRemaining(room, limit, half) ==
    LET twice == 2 * limit - (2 * (now - room.day_started_at) + half)
    IN  IF twice > 0 THEN twice ELSE 0

\* C15: get_room_state returns null when no limit is configured; otherwise
\* 0 <= time_remaining <= limit, and once the day has started
\* time_remaining = max(0, limit - elapsed), elapsed being the time since
\* day_started_at.
C15_TimeRemaining ==
    [][ \A c \in DOMAIN rooms, h \in HalfSeconds :
          (last'.op = "get_room_state" /\ get_room_state(c, h)) =>
              LET limit == ConfiguredLimit(rooms[c])
                  tr    == last'.time_remaining
              IN  IF limit = None THEN tr = None
                  ELSE /\ tr # None
                       /\ 0 <= tr /\ tr <= limit
                       /\ rooms[c].day_started_at # None =>
                              2 * tr = TwiceRemaining(rooms[c], limit, h) ]_vars

\* C16: after set_timer(0) the room has no countdown: get_room_state
\* reports no time remaining, and the scheduler does not advance the room.
\* (day_time_limit = 0 is written by set_timer(0) only, and stays until the
\* next timer is set.)
C16_ZeroMeansNoTimer ==
    [][ \A c \in DOMAIN rooms :
          rooms[c].day_time_limit = 0 =>
              /\ \A h \in HalfSeconds :
                     (last'.op = "get_room_state" /\ get_room_state(c, h)) =>
                         last'.time_remaining = None
              /\ check_and_advance_rooms => rooms'[c] = rooms[c] ]_vars

\* row j of a leaderboard may stand above row k: a higher score, or the same
\* score and a finish that is not later
RanksAbove(j, k) ==
    \/ players[j].score > players[k].score
    \/ /\ players[j].score = players[k].score
       /\ players[j].finished_at <= players[k].finished_at

\* C17: get_leaderboard returns every player of the room exactly once with
\* ranks 1..n, by score descending and, for equal scores, finished_at
\* ascending; asked twice with the player records unchanged, it returns the
\* same ordering.
C17_Leaderboard ==
    [][ \A c \in DOMAIN rooms :
          (last'.op = "get_leaderboard" /\ last'.status = 200 /\ last'.room_code = c) =>
              LET board == last'.board
              IN  /\ Len(board) = Cardinality(RoomPlayers(c))
                  /\ { board[k].player_id : k \in DOMAIN board } = RoomPlayers(c)
                  /\ \A k \in DOMAIN board : board[k].rank = k
                  /\ \A j, k \in DOMAIN board :
                         j < k => RanksAbove(board[j].player_id, board[k].player_id)
                  /\ (last.op = "get_leaderboard" /\ last.status = 200) =>
                         board = last.board ]_vars

\* C18: in every reachable state every player's cash is >= 0.
C18_CashNeverNegative ==
    \A i \in PlayerIds : players[i].cash >= 0

\* the history holds at most one trade per (ticker, day)
OneTradePerTickerDay(trades) ==
    \A j, k \in DOMAIN trades :
        (j # k) => <<trades[j].ticker, trades[j].day>> # <<trades[k].ticker, trades[k].day>>

\* the submission is stored as the player's state
Accepted(i, req) ==
    /\ last'.status = 200
    /\ players'[i].trades = req.trades

\* the submission is refused as the client's error and nothing is stored
Rejected ==
    /\ last'.status \in {400, 409, 422}
    /\ UNCHANGED <<rooms, players>>

\* C19: a stored trade history never holds two trades of one (ticker, day):
\* a submission with such a second trade is rejected, one whose trades are
\* in different tickers or on different days is accepted.
C19_OneTradePerTickerDay ==
    [][ /\ \A i \in DOMAIN players' : OneTradePerTickerDay(players'[i].trades)
        /\ \A i \in PlayerIds, req \in PlayerStateRequests :
              (last'.op = "update_player_state" /\ update_player_state(i, req)) =>
                  IF OneTradePerTickerDay(req.trades)
                  THEN Accepted(i, req)
                  ELSE Rejected ]_vars

\* every BUY of the history was made under a BUY or STRONG_BUY signal
BuysRecommended(trades) ==
    \A k \in DOMAIN trades :
        trades[k].action = "BUY" =>
            Signal(trades[k].ticker, trades[k].day) \in {"BUY", "STRONG_BUY"}

\* C20: a BUY enters a stored trade history only under a BUY or STRONG_BUY
\* signal for its ticker and day; a SELL is accepted under any signal.
C20_BuyNeedsRecommendation ==
    [][ /\ \A i \in DOMAIN players' : BuysRecommended(players'[i].trades)
        /\ \A i \in PlayerIds, req \in PlayerStateRequests :
              ( /\ last'.op = "update_player_state"
                /\ update_player_state(i, req)
                /\ OneTradePerTickerDay(req.trades) ) =>
                  IF BuysRecommended(req.trades)
                  THEN Accepted(i, req)
                  ELSE Rejected ]_vars

C26_AdvanceKeepsFinishedFlag ==
    [][ \A c \in DOMAIN rooms, limit \in TimeLimitChoices :
          ( /\ last'.op = "advance_day"
            /\ last'.status = 200
            /\ advance_day(c, limit)
            /\ rooms'[c].current_day < rooms'[c].numDays )
          => \A i \in PlayersOf(players, c) :
                players'[i].is_finished = players[i].is_finished ]_vars

\* C29: in every reachable state the players of a finished room all have
\* is_finished = true, whichever path finished the room (end_game, a manual
\* advance reaching num_days, or the scheduler).
C29_FinishedRoomFinishedPlayers ==
    \A c \in DOMAIN rooms :
        rooms[c].status = "finished" =>
            \A i \in PlayersOf(players, c) : players[i].is_finished

\* C30: a room's game_ended_at is set exactly when its status is finished:
\* every step that sets the status to finished sets game_ended_at, and no
\* other step sets or clears it.
C30_EndedAtIffFinished ==
    [][ /\ \A c \in DOMAIN rooms' :
              (rooms'[c].game_ended_at # None) <=> (rooms'[c].status = "finished")
        /\ \A c \in DOMAIN rooms :
              (rooms'[c].game_ended_at # rooms[c].game_ended_at) =>
                  /\ rooms[c].status # "finished"
                  /\ rooms'[c].status = "finished" ]_vars

\* the scheduler has just finished a room
C30_Witness ==
    \E c \in DOMAIN rooms :
        /\ last = Response("check_and_advance_rooms", 0, "advanced")
        /\ rooms[c].status = "finished"
        /\ rooms[c].game_ended_at = now
        /\ rooms[c].day_started_at = None

\* C27: readiness never gates advancement: on an in_progress sync or
\* sync_auto room a manual advance_day succeeds and moves the date, and a
\* tick of the scheduler that finds the room due advances or finishes it,
\* whatever the players' is_ready flags are, a room with no ready player
\* and a room with no player included.
C27_ReadinessNeverGates ==
    [][ \A c \in DOMAIN rooms :
          ( /\ rooms[c].status = "in_progress"
            /\ rooms[c].game_mode # "async" )
          => /\ \A limit \in TimeLimitChoices :
                   (last'.op = "advance_day" /\ advance_day(c, limit)) =>
                       /\ last'.status = 200
                       /\ DateMoves(c)
             /\ ( /\ last'.op = "check_and_advance_rooms"
                  /\ SchedulerSelects(rooms[c])
                  /\ Due(rooms[c], now)
                  /\ check_and_advance_rooms )
                => \/ rooms'[c].current_day = rooms[c].current_day + 1
                   \/ rooms'[c].status = "finished" ]_vars

\* a due tick has just finished a room in which one player is ready and
\* another is not (the finishing branch leaves the flags as it found them)
C27_Witness ==
    \E c \in DOMAIN rooms :
        /\ last = Response("check_and_advance_rooms", 0, "advanced")
        /\ rooms[c].status = "finished"
        /\ \E i, j \in PlayersOf(players, c) :
              players[i].is_ready /\ ~players[j].is_ready

\* C22: a tick of the scheduler that finds a room due applies the transition
\* of a manual advance_day: from the same pre-state both give the same
\* current_date, current_day and status, game_ended_at set or not alike,
\* and the same is_ready, last_sync_day and is_finished of every player.
C22_TickIsManualAdvance ==
    [][ \A c \in DOMAIN rooms :
          ( /\ last'.op = "check_and_advance_rooms"
            /\ SchedulerSelects(rooms[c])
            /\ Due(rooms[c], now)
            /\ check_and_advance_rooms )
          => LET manual == AdvancedRoom(rooms[c], now, None)
             IN  /\ rooms'[c].current_date = manual.current_date
                 /\ rooms'[c].current_day = manual.current_day
                 /\ rooms'[c].status = manual.status
                 /\ (rooms'[c].game_ended_at # None) = (manual.game_ended_at # None)
                 /\ \A i \in PlayersOf(players, c) :
                       LET p == AdvancedPlayer(players[i], manual.current_day)
                       IN  /\ players'[i].is_ready = p.is_ready
                           /\ players'[i].last_sync_day = p.last_sync_day
                           /\ players'[i].is_finished = p.is_finished ]_vars

\* the scheduler job run alone on a room
TickApplied(room, t) ==
    IF SchedulerSelects(room) THEN TickRoom(room, t) ELSE room

\* advance_day run alone on a room
ManualAdvanceApplied(room, t, limit) ==
    IF room.game_mode # "async" /\ room.status = "in_progress"
    THEN AdvancedRoom(room, t, limit)
    ELSE room

\* set_timer run alone on a room
TimerApplied(room, t, duration) ==
    IF room.game_mode # "async" THEN TimedRoom(room, t, duration) ELSE room

\* C23: a scheduler job and a concurrent advance_day or set_timer on the
\* same room are serialized: when the job commits after the other request
\* has committed between its read and its commit, the room is as if the
\* two had run one after the other in some order, and current_day does not
\* go backwards.
C23_TickSerialized ==
    [][ \A w \in Workers, c \in DOMAIN rooms :
          ( /\ txn[w].pc = "tick"
            /\ c \in txn[w].todo
            /\ tick_step(w, c) )
          => LET base == txn[w].loaded[c]
                 t == txn[w].t
             IN  /\ rooms'[c].current_day >= rooms[c].current_day
                 /\ \A u \in t..now, limit \in TimeLimitChoices :
                       ( /\ rooms[c] # base
                         /\ rooms[c] = ManualAdvanceApplied(base, u, limit) )
                       => \/ rooms'[c] =
                                ManualAdvanceApplied(TickApplied(base, t), u, limit)
                          \/ \E t2 \in u..now :
                                rooms'[c] = TickApplied(rooms[c], t2)
                 /\ \A u \in t..now, d \in TimerChoices :
                       ( /\ rooms[c] # base
                         /\ rooms[c] = TimerApplied(base, u, d) )
                       => \/ rooms'[c] = TimerApplied(TickApplied(base, t), u, d)
                          \/ \E t2 \in u..now :
                                rooms'[c] = TickApplied(rooms[c], t2) ]_vars

\* C24: a get_room_state query of a started room that runs while an advance,
\* a join or a mark_ready commits observes the room and its players as they
\* were before the change or as they are after it, never the room row of
\* one with the player rows of the other.
C24_ReadsOneState ==
    [][ \A w \in Workers, half \in HalfSeconds :
          ( /\ txn[w].pc = "state"
            /\ txn[w].row.status = "in_progress"
            /\ state_finish(w, half) )
          => LET c == txn[w].room
             IN  \/ txn[w].row = rooms[c]
                 \/ /\ PlayersOf(players, c) = PlayersOf(txn[w].before, c)
                    /\ \A i \in PlayersOf(players, c) :
                          players[i] = txn[w].before[i] ]_vars

\* C25: within one run of the scheduler job, a due room whose advance
\* raises is left as it was, with its players, and every other due room of
\* the same run is advanced all the same.
C25_FailureIsolated ==
    [][ \A failed \in SUBSET TickRoomCodes :
          ( /\ last'.op = "check_and_advance_rooms"
            /\ failed # {}
            /\ check_and_advance_rooms_raising(failed) )
          => /\ \A c \in failed : RoomFrozen(c)
             /\ \A c \in DOMAIN rooms \ failed :
                   (SchedulerSelects(rooms[c]) /\ Due(rooms[c], now)) =>
                       /\ rooms'[c] = TickRoom(rooms[c], now)
                       /\ \/ rooms'[c].status = "finished"
                          \/ /\ rooms'[c].current_day = rooms[c].current_day + 1
                             /\ \A i \in PlayersOf(players, c) :
                                   ~players'[i].is_ready ]_vars

\* the job has run with one due room raising and the other advancing: the
\* first is still due, the second has begun its next day
C25_Witness ==
    \E c, d \in DOMAIN rooms :
        /\ last = Response("check_and_advance_rooms", 0, "error")
        /\ SchedulerSelects(rooms[c]) /\ Due(rooms[c], now)
        /\ rooms[c].current_day = 0
        /\ rooms[d].status = "in_progress"
        /\ rooms[d].current_day = 1
        /\ rooms[d].day_started_at = now

\* sync_auto room c has been started, with the whole clock still ahead
StartedAuto(c) ==
    /\ c \in DOMAIN rooms
    /\ rooms[c].game_mode = "sync_auto"
    /\ rooms[c].status = "in_progress"
    /\ now = 0

\* C28: with the scheduler job running in every interval and time going on,
\* every started sync_auto room is finished in the end.
C28_StartedRoomFinishes ==
    \A c \in RoomCodes :
        StartedAuto(c) ~> (c \in DOMAIN rooms /\ rooms[c].status = "finished")
====
